---- MODULE Spec2Model ----
(***************************************************************************)
(* asyncio-cancel-scope: cancel scopes layered on asyncio.TaskGroup.       *)
(*                                                                         *)
(* The repository holds two variants of the same API:                      *)
(*   "core"  src/src/asyncio_cancel_scope/core.py      (ContextVar registry,*)
(*           cascade to parents at scope exit)                             *)
(*   "init"  src/src/asyncio_cancel_scope/__init__.py  (registry kept as an*)
(*           attribute on the task group, cascade at cancel_group time)    *)
(* The variable impl selects the variant for a behaviour.                  *)
(*                                                                         *)
(* The host runtime is modelled as the code uses it: the event loop is a   *)
(* FIFO queue of callbacks (task steps and task done-callbacks), a task    *)
(* runs without interruption between two awaits (cur), and                 *)
(* asyncio.TaskGroup is modelled by its fields (_entered, _exiting,        *)
(* _aborting, _parent_cancel_requested, _tasks, _errors).                  *)
(***************************************************************************)
EXTENDS Integers, Sequences, FiniteSets, TLC

\* Bound of the model: tasks in all (stop tasks included).
MaxTasks == 5

Impls == {"core", "init"}
Groups == {"O", "M", "I"}
TaskIds == 1..MaxTasks
NoGroup == "none"

\* The coroutines a task runs:
\*   "agent"      user code that opens scopes, spawns, cancels, awaits, raises
\*   "waiter"     await never.wait()
\*   "failer"     raise FakeError
\*   "canceller"  cancel_group(tg) on its own group, then await never.wait()
\*   "stop"       the library's _raise_stop()
ChildKinds == {"agent", "waiter", "failer", "canceller"}

\* The families of user programs explored.  A behaviour belongs to one:
\*   "flat"     one scope, whose body spawns waiters, failers and cancellers
\*   "outside"  one scope, whose body spawns waiters and cancellers; the task
\*              holding the scope is cancelled from outside once, at any time
\*   "nested"   two scopes opened by the root task, whose bodies spawn waiters
\*   "dup"      two scopes opened by the root task, the second of which may
\*              name the same parent twice; nothing is spawned
\*   "child"    the root task holds scope O and spawns into it waiters and one
\*              child running user code, which holds scope I
\*   "reuse"    the root task uses a group on its own (async with tg: pass)
\*              and opens scopes over it, again and again; a second group
\*              that is never entered may be named as parent
\* Outside "reuse" a group is entered at most once.
\*   "chain"    three scopes O, M, I opened by the root task, one inside the
\*              other; waiters are spawned into O
\*   "peer"     two unrelated tasks: the first holds scope O and spawns
\*              waiters, the second holds scope I and also calls the library
\*              on O
Scenarios ==
    {"flat", "outside", "nested", "dup", "child", "reuse", "chain", "peer"}
ScenRoots(sc) == IF sc = "peer" THEN {1, 2} ELSE {1}
ScenGroups(sc) ==
    IF sc \in {"flat", "outside", "reuse"} THEN {"O"}
    ELSE IF sc = "chain" THEN {"O", "M", "I"} ELSE {"O", "I"}
ScenKinds(sc) ==
    CASE sc = "flat" -> {"failer", "canceller"}
      [] sc = "outside" -> {"waiter", "canceller"}
      [] sc = "nested" -> {"waiter"}
      [] sc = "dup" -> {}
      [] sc = "child" -> {"waiter", "agent"}
      [] sc = "reuse" -> {"waiter", "failer"}
      [] sc = "chain" -> {"waiter"}
      [] sc = "peer" -> {"waiter"}
ScenTasks(sc) ==
    IF sc \in {"flat", "child", "chain"} THEN 1..MaxTasks
    ELSE 1..(MaxTasks - 1)
ScenRaises(sc) == sc \notin {"dup", "child", "chain", "peer"}
ScenDupParents(sc) == sc = "dup"

VARIABLES
    impl,     \* which variant of the library is loaded
    scen,     \* which family of user programs runs
    tasks,    \* asyncio tasks: [TaskIds -> task record]
    groups,   \* asyncio.TaskGroup objects: [Groups -> group record]
    info,     \* init: the _asyncio_cancel_scope_info_ attribute of each group
    ready,    \* the event loop's FIFO queue of callbacks
    cur,      \* the task whose code is running (0: the loop is between callbacks)
    call,     \* the last library call made by user code and how it ended
    ext       \* whether a cancellation was delivered from outside

vars == <<impl, scen, tasks, groups, info, ready, cur, call, ext>>

(***************************************************************************)
(* Exceptions.  Every exception value has the same shape so that values    *)
(* can be compared: a type, the task that raised it (real errors), and the *)
(* child errors (exception groups).                                        *)
(***************************************************************************)
Exc(type, by, excs) == [type |-> type, by |-> by, excs |-> excs]
NoExc == Exc("none", 0, <<>>)
Okay == Exc("ok", 0, <<>>)
Cancelled == Exc("Cancelled", 0, <<>>)
RuntimeErr(kind) == Exc(kind, 0, <<>>)
RealError(t) == Exc("Real", t, <<>>)

StopTaskGroupError == Exc("Stop", 0, <<>>)

ExceptionGroup(excs) == Exc("EG", 0, excs)

\* The RuntimeError kinds raised by the library and by asyncio.TaskGroup.
RuntimeKinds == {"NotScoped", "AlreadyScoped", "ParentNotScoped",
                 "NotEntered", "AlreadyEntered", "Finished", "ShuttingDown"}

IsFailure(e) == e.type \notin {"none", "ok", "Cancelled"}

\* Whether a Stop Signal occurs in e, at any depth.
RECURSIVE HasStop(_)
HasStop(e) ==
    \/ e.type = "Stop"
    \/ \E i \in 1..Len(e.excs) : HasStop(e.excs[i])

\* The real errors (by raising task) that occur in e, at any depth.
RECURSIVE RealsIn(_)
RealsIn(e) ==
    IF e.type = "Real" THEN {e.by}
    ELSE UNION {RealsIn(e.excs[i]) : i \in 1..Len(e.excs)}

(***************************************************************************)
(* Records.                                                                *)
(***************************************************************************)
FreeTask ==
    [st |-> "free", kind |-> "none", grp |-> NoGroup, res |-> NoExc,
     mc |-> FALSE, nc |-> 0, wait |-> "none", ctx |-> {}, scopes |-> <<>>,
     \* observations: cancel() was called on it, its body began to run, it
     \* was spawned after a cancel request against its group
     creq |-> FALSE, ran |-> FALSE, late |-> FALSE,
     \* observations of a stop task created for a parent: the group whose
     \* cancellation it carries on, and whether that group was registered for
     \* the task that created it
     via |-> NoGroup, viareg |-> FALSE]

NewTask(kind, g, ctx) ==
    [FreeTask EXCEPT !.st = "new", !.kind = kind, !.grp = g, !.wait = "ready",
                     !.ctx = ctx]

FreshGroup ==
    [entered |-> FALSE, exiting |-> FALSE, aborting |-> FALSE, pcr |-> FALSE,
     parent |-> 0, tasks |-> {}, errors |-> <<>>,
     \* observations of the scope over this group
     \* (ureq: cancel_group calls by user code that were accepted; et: what
     \* the body raised; vol: the exit recognised a voluntary stop; out: what
     \* the async with statement raised, Okay when it ended normally;
     \* encl: the groups whose scopes were open when this one was entered;
     \* tried: the parents against which a request was made on its behalf)
     scoped |-> FALSE, parents |-> <<>>, encl |-> {}, tried |-> {},
     ureq |-> 0, et |-> NoExc,
     vol |-> FALSE, out |-> NoExc]

NoInfo == [set |-> FALSE, parents |-> <<>>]

StepOf(t) == [k |-> "step", t |-> t]
DoneOf(t) == [k |-> "done", t |-> t]

MinOf(S) == CHOOSE x \in S : \A y \in S : x <= y

\* The state the library and the runtime act on, threaded through the
\* operators below.  full is set when a task would be created beyond MaxTasks
\* (the step is then not taken: a bound of the model).
World == [tasks |-> tasks, groups |-> groups, info |-> info, ready |-> ready,
          cur |-> cur, full |-> FALSE]

TopScope(w, t) == w.tasks[t].scopes[Len(w.tasks[t].scopes)]
InExit(w, t) == w.tasks[t].scopes # <<>> /\ TopScope(w, t).inexit

(***************************************************************************)
(* asyncio.Task                                                            *)
(***************************************************************************)
\* Task.cancel(): a finished task ignores it; a task suspended on a future is
\* woken (the future is cancelled); otherwise the request is kept for the
\* task's next step.
TaskCancel(w, t) ==
    LET tk == w.tasks[t] IN
    IF tk.st = "done" THEN w
    ELSE [w EXCEPT
            !.tasks[t] = [tk EXCEPT !.nc = @ + 1, !.mc = TRUE, !.creq = TRUE,
                                    !.wait = IF @ \in {"park", "fut"}
                                             THEN "ready" ELSE @],
            !.ready = IF tk.wait \in {"park", "fut"}
                      THEN Append(@, StepOf(t)) ELSE @]

RECURSIVE CancelAll(_, _)
CancelAll(w, S) ==
    IF S = {} THEN w
    ELSE LET t == MinOf(S) IN CancelAll(TaskCancel(w, t), S \ {t})

\* A task ends: its result is set and its done-callback (the group's
\* _on_task_done) is scheduled.  What no code reads of a finished task is
\* dropped.
TaskFinish(w, t, res) ==
    [w EXCEPT
        !.tasks[t] = [@ EXCEPT !.st = "done", !.res = res, !.wait = "none",
                               !.mc = FALSE, !.nc = 0, !.ctx = {}],
        !.ready = IF w.tasks[t].grp # NoGroup THEN Append(@, DoneOf(t)) ELSE @,
        !.cur = 0]

(***************************************************************************)
(* asyncio.TaskGroup                                                       *)
(***************************************************************************)
\* TaskGroup._abort()
Abort(w, g) ==
    CancelAll([w EXCEPT !.groups[g].aborting = TRUE], w.groups[g].tasks)

\* TaskGroup.create_task(): "ok", or the RuntimeError it raises.
CreateTaskCheck(gr) ==
    IF ~gr.entered THEN "NotEntered"
    ELSE IF gr.exiting /\ gr.tasks = {} THEN "Finished"
    ELSE IF gr.aborting THEN "ShuttingDown"
    ELSE "ok"

FreeIds(w) == {i \in ScenTasks(scen) : w.tasks[i].st = "free"}

\* The new task runs in a copy of its creator's context.
CreateTask(w, g, kind, creator) ==
    LET r == CreateTaskCheck(w.groups[g]) IN
    IF r # "ok" THEN [w |-> w, r |-> r]
    ELSE IF FreeIds(w) = {} THEN [w |-> [w EXCEPT !.full = TRUE], r |-> "ok"]
    ELSE LET id == MinOf(FreeIds(w)) IN
         [w |-> [w EXCEPT
                    !.tasks[id] = NewTask(kind, g, w.tasks[creator].ctx),
                    !.groups[g].tasks = @ \cup {id},
                    !.ready = Append(@, StepOf(id))],
          r |-> "ok"]

\* TaskGroup._on_task_done(task)
OnTaskDone(w, t) ==
    LET g == w.tasks[t].grp
        res == w.tasks[t].res
        p == w.groups[g].parent
        left == w.groups[g].tasks \ {t}
        \* _on_completed_fut.set_result(True) wakes the parent waiting in __aexit__
        wakes == /\ left = {}
                 /\ w.tasks[p].wait = "fut"
                 /\ TopScope(w, p).g = g
        w1 == [w EXCEPT
                 !.groups[g].tasks = left,
                 !.tasks[p].wait = IF wakes THEN "ready" ELSE @,
                 !.ready = IF wakes THEN Append(@, StepOf(p)) ELSE @]
    IN
    IF ~IsFailure(res) THEN w1
    ELSE LET w2 == [w1 EXCEPT !.groups[g].errors = Append(@, res)] IN
         IF w2.tasks[p].st = "done" THEN w2
         ELSE IF ~w2.groups[g].aborting /\ ~w2.groups[g].pcr
         THEN TaskCancel([Abort(w2, g) EXCEPT !.groups[g].pcr = TRUE], p)
         ELSE w2

(***************************************************************************)
(* The library: registry                                                   *)
(***************************************************************************)
\* Whether group g is registered, as seen by code running in task t:
\* core reads the ContextVar _SCOPED_TASK_GROUPS of the running context,
\* init reads the attribute the group carries.
IsRegistered(w, t, g) ==
    IF impl = "core" THEN g \in w.tasks[t].ctx ELSE w.info[g].set

(***************************************************************************)
(* The library: cancel_group                                               *)
(***************************************************************************)
\* init: after the target, a stop task is created in every parent recorded
\* for the target; the first create_task that raises ends the call.
\* Records, on a request c made against parent p on behalf of g by task t,
\* what the model observes of it (w is the state before the request).
Observed(w, c, t, g, p) ==
    LET w1 == [c.w EXCEPT !.groups[g].tried = @ \cup {p}] IN
    IF c.r # "ok" \/ c.w.full THEN [w |-> w1, r |-> c.r]
    ELSE [w |-> [w1 EXCEPT !.tasks[MinOf(FreeIds(w))].via = g,
                           !.tasks[MinOf(FreeIds(w))].viareg =
                               IsRegistered(w, t, g)],
          r |-> "ok"]

RECURSIVE StopParents(_, _, _, _)
StopParents(w, t, g, ps) ==
    IF ps = <<>> THEN [w |-> w, r |-> "ok"]
    ELSE LET c == Observed(w, CreateTask(w, Head(ps), "stop", t),
                           t, g, Head(ps)) IN
         IF c.r # "ok" THEN c ELSE StopParents(c.w, t, g, Tail(ps))

CancelGroup(w, t, g) ==
    IF ~IsRegistered(w, t, g) THEN [w |-> w, r |-> "NotScoped"]
    ELSE LET c == CreateTask(w, g, "stop", t) IN
         IF c.r # "ok" \/ impl = "core" THEN c
         ELSE StopParents(c.w, t, g, w.info[g].parents)

(***************************************************************************)
(* The library: cancel_scope and _CancelScope.__aenter__                   *)
(***************************************************************************)
Range(s) == {s[i] : i \in 1..Len(s)}

\* A cancel_scope that would not look at the parents it is given.
CancelScopeAnyParent(w, t, g, ps) ==
    IF impl = "init" /\ w.info[g].set THEN "AlreadyScoped" ELSE "ok"

\* cancel_scope(target, *parents): "ok", or the RuntimeError it raises.
CancelScopeCheck(w, t, g, ps) ==
    IF impl = "core"
    THEN IF Range(ps) \ w.tasks[t].ctx # {} THEN "ParentNotScoped" ELSE "ok"
    ELSE IF w.info[g].set THEN "AlreadyScoped"
         ELSE IF \E p \in Range(ps) : ~w.info[p].set THEN "ParentNotScoped"
         ELSE "ok"

\* init records the scope on the group when the scope is constructed.
CancelScopeNew(w, g, ps) ==
    IF impl = "core" THEN w
    ELSE [w EXCEPT !.info[g] = [set |-> TRUE, parents |-> ps]]

NewScope(g, ps, token) ==
    [g |-> g, parents |-> ps, token |-> token, inexit |-> FALSE,
     et |-> NoExc, prop |-> FALSE]

\* _CancelScope.__aenter__: core registers the target in the running context
\* (the token keeps the previous value), then the group is entered.
ScopeEnter(w, t, g, ps) ==
    LET token == w.tasks[t].ctx
        w1 == IF impl = "core"
              THEN [w EXCEPT !.tasks[t].ctx = @ \cup {g}] ELSE w
    IN
    IF w1.groups[g].entered THEN [w |-> w1, r |-> "AlreadyEntered"]
    ELSE [w |-> [w1 EXCEPT
                    !.groups[g].entered = TRUE,
                    !.groups[g].parent = t,
                    !.groups[g].scoped = TRUE,
                    !.groups[g].parents = ps,
                    !.groups[g].encl =
                        {h \in Groups : w.groups[h].entered
                                        /\ w.groups[h].out.type = "none"},
                    !.tasks[t].scopes = Append(@, NewScope(g, ps, token))],
          r |-> "ok"]

\* async with cancel_scope(g, *ps) as tg: the construction, then the entry.
OpenScope(w, t, g, ps) ==
    LET r == CancelScopeCheck(w, t, g, ps) IN
    IF r # "ok" THEN [w |-> w, r |-> r]
    ELSE ScopeEnter(CancelScopeNew(w, g, ps), t, g, ps)

(***************************************************************************)
(* The library: _CancelScope.__aexit__ around TaskGroup.__aexit__          *)
(***************************************************************************)
\* core: _SCOPED_TASK_GROUPS.reset(token), the first statement of __aexit__.
ScopeReset(w, t) ==
    IF impl = "core"
    THEN [w EXCEPT !.tasks[t].ctx = TopScope(w, t).token] ELSE w

\* A pattern that would take any list of child errors holding a Stop Signal
\* for a voluntary stop.
MatchesAnyStop(excs) == \E i \in 1..Len(excs) : excs[i].type = "Stop"

\* case [_StopTaskGroupError()]: exactly one child error, a Stop Signal.
MatchesStop(excs) == Len(excs) = 1 /\ excs[1].type = "Stop"

\* core: for parent_tg in self._parent_task_groups: cancel_group(parent_tg).
\* The first call that raises ends the loop and the exit.
RECURSIVE Cascade(_, _, _, _)
Cascade(w, t, g, ps) ==
    IF ps = <<>> THEN [w |-> w, r |-> "ok"]
    ELSE LET c == Observed(w, CancelGroup(w, t, Head(ps)), t, g, Head(ps)) IN
         IF c.r # "ok" THEN c
         ELSE Cascade(c.w, t, g, Tail(ps))

\* What TaskGroup.__aexit__ raises once no child is left (NoExc: it returns).
TgExitRaises(errors, et, prop) ==
    IF prop /\ errors = <<>> THEN Cancelled
    ELSE LET errs == IF IsFailure(et) THEN Append(errors, et) ELSE errors IN
         IF errs # <<>> THEN ExceptionGroup(errs) ELSE NoExc

\* An exit that would return a true value: the body's exception is dropped.
WithSwallows(raised, et) == raised

\* What the async with statement leaves in flight: the exception raised by
\* __aexit__, else (as __aexit__ returns None) the body's own exception.
WithRaises(raised, et) == IF raised # NoExc THEN raised ELSE et

RECURSIVE ScopeExit(_, _, _)

\* An exception in flight in task t leaves the innermost open scope's body
\* (entering its __aexit__), or ends the task.
Throw(w, t, e) ==
    IF w.tasks[t].scopes = <<>> THEN TaskFinish(w, t, e)
    ELSE ScopeExit(w, t, e)

\* The end of the scope's exit: the group's children are all done.  An
\* exception left in flight goes on into the enclosing body.
ExitFinish(w, t) ==
    LET s == TopScope(w, t)
        g == s.g
        tgexc == TgExitRaises(w.groups[g].errors, s.et, s.prop)
        vol == tgexc.type = "EG" /\ MatchesStop(tgexc.excs)
        c == IF vol /\ impl = "core" THEN Cascade(w, t, g, s.parents)
             ELSE [w |-> w, r |-> "ok"]
        raised == IF vol
                  THEN (IF c.r = "ok" THEN NoExc ELSE RuntimeErr(c.r))
                  ELSE tgexc
        final == WithRaises(raised, s.et)
        w1 == [c.w EXCEPT
                 !.tasks[t].scopes = SubSeq(@, 1, Len(@) - 1),
                 !.tasks[t].wait = "none",
                 !.cur = t,
                 !.groups[g].vol = vol,
                 !.groups[g].out = IF final = NoExc THEN Okay ELSE final]
    IN IF final = NoExc THEN w1 ELSE Throw(w1, t, final)

\* while self._tasks: await self._on_completed_fut
ExitLoop(w, t) ==
    IF w.groups[TopScope(w, t).g].tasks # {}
    THEN [w EXCEPT !.tasks[t].wait = "fut", !.cur = 0]
    ELSE ExitFinish(w, t)

\* Task.uncancel()
Uncancel(n) == IF n > 0 THEN n - 1 ELSE n

\* _CancelScope.__aexit__(et): the registry is reset, then TaskGroup.__aexit__
\* runs up to its first await (or to its end when no child is left).
ScopeExit(w, t, et) ==
    LET s == TopScope(w, t)
        g == s.g
        w1 == ScopeReset(w, t)
        gr == w1.groups[g]
        nc == IF gr.pcr THEN Uncancel(w1.tasks[t].nc) ELSE w1.tasks[t].nc
        prop == et.type = "Cancelled" /\ ~(gr.pcr /\ nc = 0)
        w2 == [w1 EXCEPT
                 !.groups[g].exiting = TRUE,
                 !.groups[g].et = et,
                 !.tasks[t].nc = nc,
                 !.tasks[t].scopes[Len(w.tasks[t].scopes)] =
                     [s EXCEPT !.inexit = TRUE, !.et = et, !.prop = prop]]
        w3 == IF et # NoExc /\ ~gr.aborting THEN Abort(w2, g) ELSE w2
    IN ExitLoop(w3, t)

\* The parent resumes inside __aexit__: with a CancelledError (the except
\* branch of the wait) or with the future's result.
ExitResume(w, t) ==
    LET s == TopScope(w, t)
        g == s.g
        thrown == w.tasks[t].mc
        outside == thrown /\ ~w.groups[g].aborting
        w1 == [w EXCEPT
                 !.tasks[t].mc = FALSE,
                 !.tasks[t].scopes[Len(w.tasks[t].scopes)].prop =
                     IF outside THEN TRUE ELSE @]
        w2 == IF outside THEN Abort(w1, g) ELSE w1
    IN ExitLoop(w2, t)

(***************************************************************************)
(* The event loop                                                          *)
(***************************************************************************)
\* cancel_group(g) called by user code, and g.create_task(coro) called by
\* user code, with what the model observes of them.
UserCancel(w, t, g) ==
    LET c == CancelGroup(w, t, g) IN
    IF c.r # "ok" THEN c
    ELSE [w |-> [c.w EXCEPT !.groups[g].ureq = @ + 1], r |-> "ok"]

Requested(w, g) ==
    \E u \in TaskIds : w.tasks[u].kind = "stop" /\ w.tasks[u].grp = g

UserSpawn(w, t, g, kind) ==
    LET c == CreateTask(w, g, kind, t) IN
    IF c.r # "ok" \/ c.w.full \/ ~Requested(w, g) THEN c
    ELSE [w |-> [c.w EXCEPT !.tasks[MinOf(FreeIds(w))].late = TRUE], r |-> "ok"]

\* Task.__step: a task cancelled before its first step never runs its body;
\* a resumed task gets the pending CancelledError at the await it is
\* suspended on; otherwise the coroutine runs to its next await.
TaskStep(w, t) ==
    LET tk == w.tasks[t]
        w1 == [w EXCEPT !.tasks[t].st = "run", !.tasks[t].wait = "none",
                        !.tasks[t].ran = TRUE, !.tasks[t].mc = FALSE]
    IN
    IF tk.st = "new"
    THEN CASE tk.mc -> TaskFinish(w, t, Cancelled)
           [] tk.kind = "stop" -> TaskFinish(w1, t, StopTaskGroupError)
           [] tk.kind = "failer" -> TaskFinish(w1, t, RealError(t))
           [] tk.kind = "waiter" -> [w1 EXCEPT !.tasks[t].wait = "park"]
           [] tk.kind = "canceller" ->
                LET c == UserCancel(w1, t, tk.grp) IN
                IF c.r = "ok" THEN [c.w EXCEPT !.tasks[t].wait = "park"]
                ELSE TaskFinish(c.w, t, RuntimeErr(c.r))
           [] OTHER -> [w1 EXCEPT !.cur = t]
    ELSE IF InExit(w, t) THEN ExitResume(w, t)
    ELSE IF tk.mc THEN Throw(w1, t, Cancelled)
    ELSE [w1 EXCEPT !.cur = t]

Call(op, t, g, r) == [op |-> op, t |-> t, g |-> g, r |-> r, ps |-> <<>>]
NoCall == Call("none", 0, NoGroup, "ok")

Commit(w) ==
    /\ ~w.full
    /\ tasks' = w.tasks
    /\ groups' = w.groups
    /\ info' = w.info
    /\ ready' = w.ready
    /\ cur' = w.cur

Dequeued == [World EXCEPT !.ready = Tail(ready)]

\* The loop runs the next callback: a task's step ...
RunStep ==
    /\ cur = 0 /\ ready # <<>> /\ Head(ready).k = "step"
    /\ Commit(TaskStep(Dequeued, Head(ready).t))
    /\ call' = NoCall /\ UNCHANGED <<impl, scen, ext>>

\* ... or a finished task's done-callback.
RunDone ==
    /\ cur = 0 /\ ready # <<>> /\ Head(ready).k = "done"
    /\ Commit(OnTaskDone(Dequeued, Head(ready).t))
    /\ call' = NoCall /\ UNCHANGED <<impl, scen, ext>>

\* An event from outside the scopes completes the future a task waits on.
Wake(t) ==
    /\ cur = 0 /\ tasks[t].kind = "agent" /\ tasks[t].wait = "park"
    /\ Commit([World EXCEPT !.tasks[t].wait = "ready",
                            !.ready = Append(@, StepOf(t))])
    /\ call' = NoCall /\ UNCHANGED <<impl, scen, ext>>

\* Code outside the scopes cancels a task (task.cancel()).
ExtCancel(t) ==
    /\ cur = 0 /\ scen = "outside" /\ ~ext
    /\ tasks[t].st = "run" /\ tasks[t].scopes # <<>>
    /\ Commit(TaskCancel(World, t))
    /\ ext' = TRUE
    /\ call' = NoCall
    /\ UNCHANGED <<impl, scen>>

(***************************************************************************)
(* User code: what the running task does between two awaits                *)
(***************************************************************************)
Running(t) == cur = t

\* Group objects are interchangeable until entered: "O" names the one
\* entered first.
OpenOrder(g) ==
    /\ g = "I" => groups["O"].entered
    /\ g = "M" => groups["O"].entered

\* In "chain" each scope is opened once, in the body of the one before.
Nests(t, g) ==
    /\ scen = "peer" => (g = "O" <=> t = 1)
    /\ scen # "reuse" => ~groups[g].entered
    /\ scen = "chain" =>
        /\ ~groups[g].entered
        /\ CASE g = "O" -> tasks[t].scopes = <<>>
             [] g = "M" -> tasks[t].scopes # <<>> /\ TopScope(World, t).g = "O"
             [] g = "I" -> tasks[t].scopes # <<>> /\ TopScope(World, t).g = "M"

\* Which group objects the user code of task t works with, and what it spawns.
Uses(t, g) ==
    /\ g \in ScenGroups(scen)
    /\ scen = "child" => (g = "O" <=> t = 1)
    /\ scen = "peer" => (t = 1 => g = "O")

Spawns(t, kind) ==
    /\ kind \in ScenKinds(scen)
    /\ scen \in {"child", "peer"} => t = 1
    /\ kind = "agent" => ~\E u \in TaskIds \ {1} : tasks[u].kind = "agent"

SpawnsInto(g) == scen = "chain" => g = "O"

Cancels(t, g) ==
    /\ scen = "child" => t # 1
    /\ scen = "chain" => g \in {"M", "I"} /\ groups[g].ureq = 0
    /\ scen = "nested" => groups[g].ureq = 0

Parks(t) ==
    scen = "chain" => tasks[t].scopes # <<>> /\ TopScope(World, t).g = "O"

ParentChoices(g) ==
    LET P == IF scen = "reuse" THEN {"I"} ELSE ScenGroups(scen) \ {g} IN
    {<<>>} \cup {<<p>> : p \in P}
          \cup {<<p, q>> : p, q \in IF ScenDupParents(scen) THEN P ELSE {}}
          \cup {<<p, q>> \in P \X P : scen = "chain" /\ p # q}

\* async with cancel_scope(g, *ps) as tg:
Open(t, g, ps) ==
    /\ Running(t) /\ Uses(t, g) /\ OpenOrder(g) /\ Nests(t, g)
    /\ LET c == OpenScope(World, t, g, ps) IN
       Commit(c.w) /\ call' = [Call("open", t, g, c.r) EXCEPT !.ps = ps]
    /\ UNCHANGED <<impl, scen, ext>>

\* async with g: pass -- the group used without a scope.  Neither
\* TaskGroup.__aenter__ nor, with no child, TaskGroup.__aexit__ suspends.
Use(t, g) ==
    /\ Running(t) /\ Uses(t, g) /\ scen = "reuse"
    /\ LET r == IF groups[g].entered THEN "AlreadyEntered" ELSE "ok" IN
       /\ Commit(IF r # "ok" THEN World
                 ELSE [World EXCEPT !.groups[g].entered = TRUE,
                                    !.groups[g].exiting = TRUE,
                                    !.groups[g].parent = t])
       /\ call' = Call("use", t, g, r)
    /\ UNCHANGED <<impl, scen, ext>>

\* g.create_task(coro)
Spawn(t, g, kind) ==
    /\ Running(t) /\ Uses(t, g) /\ Spawns(t, kind) /\ SpawnsInto(g)
    /\ LET c == UserSpawn(World, t, g, kind) IN
       Commit(c.w) /\ call' = Call("spawn", t, g, c.r)
    /\ UNCHANGED <<impl, scen, ext>>

\* cancel_group(g)
CancelReq(t, g) ==
    /\ Running(t) /\ Uses(t, g) /\ Cancels(t, g)
    /\ LET c == UserCancel(World, t, g) IN
       Commit(c.w) /\ call' = Call("cancel", t, g, c.r)
    /\ UNCHANGED <<impl, scen, ext>>

\* await something that is not done yet
Park(t) ==
    /\ Running(t) /\ Parks(t)
    /\ Commit([World EXCEPT !.tasks[t].wait = "park", !.cur = 0])
    /\ call' = NoCall /\ UNCHANGED <<impl, scen, ext>>

\* the body of the innermost scope ends normally
EndBody(t) ==
    /\ Running(t) /\ tasks[t].scopes # <<>>
    /\ Commit(ScopeExit(World, t, NoExc))
    /\ call' = NoCall /\ UNCHANGED <<impl, scen, ext>>

\* user code raises an error of its own
Raise(t) ==
    /\ Running(t) /\ ScenRaises(scen)
    /\ Commit(Throw(World, t, RealError(t)))
    /\ call' = NoCall /\ UNCHANGED <<impl, scen, ext>>

\* the coroutine returns
Return(t) ==
    /\ Running(t) /\ tasks[t].scopes = <<>>
    /\ Commit(TaskFinish(World, t, Okay))
    /\ call' = NoCall /\ UNCHANGED <<impl, scen, ext>>

Init ==
    /\ impl \in Impls
    /\ scen \in Scenarios
    /\ tasks = [i \in TaskIds |->
                  IF i \in ScenRoots(scen) THEN NewTask("agent", NoGroup, {})
                  ELSE FreeTask]
    /\ groups = [g \in Groups |-> FreshGroup]
    /\ info = [g \in Groups |-> NoInfo]
    /\ ready = IF scen = "peer" THEN <<StepOf(1), StepOf(2)>>
               ELSE <<StepOf(1)>>
    /\ cur = 0
    /\ call = NoCall
    /\ ext = FALSE

Next ==
    \/ RunStep
    \/ RunDone
    \/ \E t \in TaskIds : Wake(t)
    \/ \E t \in TaskIds : ExtCancel(t)
    \/ \E t \in TaskIds, g \in Groups : \E ps \in ParentChoices(g) : Open(t, g, ps)
    \/ \E t \in TaskIds, g \in Groups : Use(t, g)
    \/ \E t \in TaskIds, g \in Groups, k \in ChildKinds : Spawn(t, g, k)
    \/ \E t \in TaskIds, g \in Groups : CancelReq(t, g)
    \/ \E t \in TaskIds : Park(t)
    \/ \E t \in TaskIds : EndBody(t)
    \/ \E t \in TaskIds : Raise(t)
    \/ \E t \in TaskIds : Return(t)

Spec == Init /\ [][Next]_vars

-----------------------------------------------------------------------------
\* Observations the properties below are stated over.

\* The scope over g has finished its exit: the async with statement is over.
Exited(g) == groups[g].out.type # "none"

\* The stop tasks that cancel requests spawned into g.
StopsIn(g) == {t \in TaskIds : tasks[t].kind = "stop" /\ tasks[t].grp = g}

\* The children of g that user code spawned.
ChildrenOf(g) == {t \in TaskIds : tasks[t].kind # "stop" /\ tasks[t].grp = g}

\* The children of g that ended with an error of their own: anything but a
\* normal return, a cancellation or the stop signal.
FailedIn(g) == {t \in ChildrenOf(g) : IsFailure(tasks[t].res)}

\* No user code has raised an error of its own, in a body or in a child.
NoRealError ==
    /\ \A t \in TaskIds : RealsIn(tasks[t].res) = {}
    /\ \A g \in Groups : RealsIn(groups[g].et) = {} /\ RealsIn(groups[g].out) = {}

\* The children of g that called cancel_group(g).
CancellersIn(g) == {t \in ChildrenOf(g) : tasks[t].kind = "canceller" /\ tasks[t].ran}

-----------------------------------------------------------------------------
\* C1: a scope over a group whose children alone request its cancellation, k
\* of them with k at least 1, no real error and no outside cancellation, and
\* whose body has ended normally, exits without error.
C1_IdempotentStop ==
    \A g \in Groups :
        ( /\ Exited(g)
          /\ groups[g].parents = <<>>
          /\ CancellersIn(g) # {}
          /\ groups[g].ureq = Cardinality(CancellersIn(g))
          /\ groups[g].et = NoExc
          /\ NoRealError
          /\ ~ext )
        => groups[g].out = Okay

\* C2: a scope without parents whose group is cancelled exactly once, with no
\* real error in the body or in a child, exits normally and every child that
\* was still running ends cancelled.
C2_SingleVoluntaryStop ==
    \A g \in Groups :
        ( /\ Exited(g)
          /\ groups[g].parents = <<>>
          /\ groups[g].ureq = 1
          /\ Cardinality(StopsIn(g)) = 1
          /\ NoRealError
          /\ ~ext )
        => /\ groups[g].out = Okay
           /\ \A t \in ChildrenOf(g) :
                  tasks[t].kind = "waiter" => tasks[t].res = Cancelled

\* C3: when a child of a scoped group fails with a real error, the exit of the
\* scope raises a group error that contains every such error, whether or not
\* a cancel request was made as well.
C3_RealErrorsPropagate ==
    \A g \in Groups :
        (Exited(g) /\ groups[g].scoped) =>
            \A t \in FailedIn(g) :
                /\ groups[g].out.type = "EG"
                /\ \E i \in 1..Len(groups[g].out.excs) :
                       groups[g].out.excs[i] = tasks[t].res

\* A scope exited while a child failed and a cancel request was delivered too.
C3_Witness ==
    \E g \in Groups :
        /\ Exited(g) /\ groups[g].scoped
        /\ FailedIn(g) # {}
        /\ StopsIn(g) # {}
        /\ groups[g].ureq > 0

\* C4: whatever the exit of a scope raises, the stop signal is nowhere inside
\* it.
C4_StopSignalInvisible ==
    \A g \in Groups : Exited(g) => ~HasStop(groups[g].out)

\* C5: with I opened inside O and O declared as its parent, one cancel request
\* on I (and none on O, no real error, no outside cancellation) ends with O's
\* waiting children cancelled and O's scope exit returning without error.
C5_ParentCascade ==
    ( /\ groups["I"].scoped /\ groups["I"].parents = <<"O">>
      /\ "O" \in groups["I"].encl
      /\ groups["I"].ureq = 1 /\ groups["O"].ureq = 0
      /\ NoRealError /\ ~ext
      /\ Exited("O") )
    => /\ groups["O"].out = Okay
       /\ \A t \in ChildrenOf("O") :
              tasks[t].kind = "waiter" => tasks[t].res = Cancelled

\* C6: with I opened inside O and no parent declared, a voluntary stop of I
\* (one cancel request on I, none on O, no real error, no outside
\* cancellation) puts no stop task into O and cancels none of O's children
\* other than the task that runs I.
C6_NoParentIsolation ==
    ( /\ groups["I"].scoped /\ groups["I"].parents = <<>>
      /\ "O" \in groups["I"].encl
      /\ groups["I"].ureq = 1 /\ groups["O"].ureq = 0
      /\ NoRealError /\ ~ext )
    => /\ StopsIn("O") = {}
       /\ ~groups["O"].aborting
       /\ \A t \in ChildrenOf("O") :
              t # groups["I"].parent => ~tasks[t].creq

\* C7: once the exit of a scope is complete, its group is not registered any
\* more for the code that ran the scope.
C7_RegistryHygiene ==
    \A g \in Groups :
        (Exited(g) /\ groups[g].scoped) =>
            ~IsRegistered(World, groups[g].parent, g)

\* C8: a child spawned into a scoped group after a cancel request against
\* that group never runs its body, and spawning it does not raise.
C8_LateSpawnSuppressed ==
    /\ \A t \in TaskIds : tasks[t].late => ~tasks[t].ran
    /\ \A g \in Groups :
           ( /\ call.op = "spawn" /\ call.g = g
             /\ groups[g].scoped /\ ~Exited(g)
             /\ StopsIn(g) # {} )
           => call.r = "ok"

C10_UnregisteredCancelRejected ==
    [][\A g \in Groups :
           ( /\ call'.op = "cancel" /\ call'.g = g
             /\ (~groups[g].scoped \/ Exited(g)) )
           => /\ call'.r = "NotScoped"
              /\ UNCHANGED <<tasks, groups, info, ready>>]_vars

\* The scopes entered and not yet exited that wrap group g.
ActiveScopes(g) ==
    {<<t, i>> \in TaskIds \X (1..3) :
        i <= Len(tasks[t].scopes) /\ tasks[t].scopes[i].g = g}

\* C11: opening a scope over a group that is registered for the caller fails
\* with the already-scoped error, and no group is ever wrapped by two active
\* scopes at once.
C11_TargetAlreadyScoped ==
    /\ [][\A g \in Groups :
              ( /\ call'.op = "open" /\ call'.g = g
                /\ IsRegistered(World, call'.t, g) )
              => call'.r = "AlreadyScoped"]_vars
    /\ [](\A g \in Groups : Cardinality(ActiveScopes(g)) <= 1)

\* An open that names a parent which is not registered for the caller.
OpensWithMissingParent(g) ==
    /\ call'.op = "open" /\ call'.g = g
    /\ \E i \in 1..Len(call'.ps) : ~IsRegistered(World, call'.t, call'.ps[i])

Visible(w, t) == {g \in Groups : IsRegistered(w, t, g)}

\* C13: when the entry of the target group fails during the entry of a scope,
\* the failure reaches the caller and the caller sees the registry as it was
\* before the attempt.
C13_EntryFailureRollsBack ==
    [][(call'.op = "open" /\ call'.r = "AlreadyEntered") =>
           Visible([tasks |-> tasks', info |-> info'], call'.t)
               = Visible(World, call'.t)]_vars

\* The tasks that exist and have not ended.
Alive == {t \in TaskIds : tasks[t].st \notin {"free", "done"}}

\* C14: in every task, the tasks spawned while a scope was active included, a
\* group that is registered has an active scope: one entered and not yet
\* exited.
C14_RegisteredMeansActive ==
    \A t \in Alive : \A g \in Visible(World, t) : ActiveScopes(g) # {}

\* The stop tasks created for a parent on behalf of group g.
CascadedFrom(g) == {t \in TaskIds : tasks[t].via = g}

\* C15: once the exit of a scope has recognised a voluntary stop, a cancel
\* request has been made against every parent the scope declared, whatever
\* the state of the other parents.
C15_CascadeReachesEveryParent ==
    \A g \in Groups :
        (Exited(g) /\ groups[g].vol) =>
            Range(groups[g].parents) \subseteq groups[g].tried

\* C16: a scope whose exit did not recognise a voluntary stop (it ended
\* normally or in a failure) has made no cancel request against a parent.
C16_CascadeOnlyOnVoluntaryStop ==
    \A g \in Groups :
        (Exited(g) /\ ~groups[g].vol) =>
            groups[g].tried = {} /\ CascadedFrom(g) = {}

\* C17: while a scope is in its exit its target is not registered for the
\* exiting task, and whenever a parent received a request on behalf of a
\* group, that group was not registered for the task that made the request.
C17_RestoredBeforeCascade ==
    /\ \A t \in Alive :
           InExit(World, t) => ~IsRegistered(World, t, TopScope(World, t).g)
    /\ \A t \in TaskIds : tasks[t].via # NoGroup => ~tasks[t].viareg

\* The tasks that were not spawned by any other task of the program: each is
\* the head of a call chain of its own.
Roots == {t \in TaskIds : tasks[t].kind = "agent" /\ tasks[t].grp = NoGroup}

\* Group g was registered by a scope opened in a chain that task t is no
\* part of.
Foreign(t, g) ==
    /\ t \in Roots /\ tasks[t].st # "done"
    /\ groups[g].scoped /\ groups[g].parent \in Roots \ {t}

\* C18: a group registered by a scope opened in one chain is not registered
\* for an unrelated concurrent chain: from there cancel_group on it raises the
\* not-scoped error and naming it as a parent raises the parent-not-scoped
\* error.
C18_ChainLocalRegistry ==
    /\ \A t \in TaskIds : \A g \in Groups :
           Foreign(t, g) => g \notin Visible(World, t)
    /\ \A g \in Groups :
           (call.op = "cancel" /\ call.g = g /\ Foreign(call.t, g))
               => call.r = "NotScoped"
    /\ \A g \in Groups :
           ( /\ call.op = "open" /\ \E i \in 1..Len(call.ps) : call.ps[i] = g
             /\ Foreign(call.t, g) )
               => call.r = "ParentNotScoped"

\* Group p was reached by more than one cascaded request: two stop tasks
\* created for it on behalf of other groups, or requests on behalf of two
\* groups.
ReachedTwice(p) ==
    \/ Cardinality({t \in StopsIn(p) : tasks[t].via # NoGroup}) >= 2
    \/ Cardinality({g \in Groups : p \in groups[g].tried}) >= 2

\* No body of a scope was cancelled.
NoBodyCancelled == \A g \in Groups : groups[g].et.type # "Cancelled"

\* C19: a parent reached by more than one cascaded request, with no request
\* of its own, no real error, no outside cancellation and no cancelled body,
\* exits without error, and so does every scope that declared it as parent.
C19_RepeatedCascadeIsOneStop ==
    \A p \in Groups :
        ( /\ Exited(p) /\ ReachedTwice(p)
          /\ groups[p].ureq = 0
          /\ NoRealError /\ ~ext /\ NoBodyCancelled )
        => /\ groups[p].out = Okay
           /\ \A g \in Groups :
                  (p \in Range(groups[g].parents) /\ Exited(g))
                      => groups[g].out = Okay

\* C20: cascade is transitive.  With I declaring M and M declaring O, a
\* request on I only, no real error and no outside cancellation: once M has
\* exited it stopped voluntarily and O holds a cancellation request made on
\* behalf of M; once O has exited it did so without error and its waiting
\* children were cancelled.
C20_TransitiveCascade ==
    ( /\ groups["I"].parents = <<"M">> /\ groups["M"].parents = <<"O">>
      /\ groups["I"].ureq = 1 /\ groups["M"].ureq = 0 /\ groups["O"].ureq = 0
      /\ NoRealError /\ ~ext
      /\ Exited("I") )
    => /\ Exited("M") =>
              /\ groups["M"].vol
              /\ \E t \in StopsIn("O") : tasks[t].via = "M"
       /\ Exited("O") =>
              /\ groups["O"].out = Okay
              /\ \A t \in ChildrenOf("O") :
                     tasks[t].kind = "waiter" => tasks[t].res = Cancelled

====
